---- MODULE Spec2Model ----
(***************************************************************************)
(* Ticket lifecycle and notification engine of the support dashboard       *)
(* (src/store.ts): the session store, the ticket store and the part of the *)
(* admin store the ticket store calls.  The module-level mock* arrays are  *)
(* the backing collections; the zustand stores hold views of them.  Code   *)
(* between two awaits runs atomically; what follows an await apiDelay(..)  *)
(* is a continuation queued in `pending`.                                  *)
(***************************************************************************)
EXTENDS Integers, Sequences, FiniteSets, TLC

\* ---------------------------------------------------------------- bounds
MaxTickets  == 2    \* length of mockTickets
MaxNotifs   == 2    \* length of mockNotifications and of mockAdminNotifications
MaxLogs     == 3    \* length of mockLogs
MaxPending  == 1    \* continuations waiting behind an apiDelay
MaxClock    == 4    \* largest value of Date.now()
MaxMessages == 1    \* length of mockMessages
MaxUsers    == 5    \* length of mockUsers
MaxKpiTickets == 2  \* tickets of earlier sessions the KPIs are computed over
MaxHierarchyUsers == 4  \* users the hierarchy is resolved over

\* ------------------------------------------------------------- constants
Null == "null"                       \* null / undefined
Absent == "absent"                   \* a key missing from a Partial<Ticket>

IN_PROGRESS == "In Progress"
COMPLETED   == "Completed"
ESCALATED   == "Escalated"
CLOSED      == "Closed"
TicketStatus == {IN_PROGRESS, COMPLETED, ESCALATED, CLOSED}

PRE   == "PRE"
ADMIN == "ADMIN"
ASM   == "ASM"
BDM   == "BDM"

ONBOARDING  == "Onboarding Team"
RETARGETING == "Retargeting Team"
Team == {ONBOARDING, RETARGETING}

ClockStart == 3                      \* Date.now() when the page is loaded
UnknownId  == 0                      \* an id that names nothing

\* inputs of the forms
Uids         == {"UID500", "UID501"}
ErrorTypeIds == {"et-1", "et-3"}
MessageTexts == {"auto-resolved"}
Comments     == {"fixed"}            \* "" stands for a missing or empty comment
Emails       == {"pre@example.com", "admin@example.com", "asm@example.com",
                 "new@example.com", "nobody@example.com"}

VARIABLES
    user, team,                      \* useSessionStore
    mockUsers, mockTickets, mockMessages, mockLogs,
    mockNotifications, mockAdminNotifications,       \* mockData
    tickets, notifications, adminNotifications, kpis,          \* useTicketStore
    users, messages, messagesAliased, logs,          \* useAdminStore
    bfs,                             \* the locals of a getSubordinateIds call
    clock,                           \* Date.now()
    pending,                         \* continuations behind apiDelay, in timer order
    outcome                          \* how the last addTicket or updateTicket call ended

sessionVars == <<user, team>>
mockVars    == <<mockUsers, mockTickets, mockMessages, mockLogs,
                 mockNotifications, mockAdminNotifications>>
ticketStoreVars == <<tickets, notifications, adminNotifications>>
adminStoreVars  == <<users, messages, messagesAliased, logs>>
vars == <<user, team, mockUsers, mockTickets, mockMessages, mockLogs,
          mockNotifications, mockAdminNotifications,
          tickets, notifications, adminNotifications,
          users, messages, messagesAliased, logs, clock, pending, outcome, kpis, bfs>>

\* ---------------------------------------------------------------- helpers
\* mutant: the new entry takes the place of the newest one
UnshiftReplacing(s, e) == <<e>> \o (IF s = <<>> THEN s ELSE Tail(s))

\* Array.prototype.unshift
Unshift(s, e) == <<e>> \o s

\* Array.prototype.findIndex, 0 for -1
FindIndex(s, P(_)) ==
    IF \E i \in 1..Len(s) : P(s[i])
    THEN CHOOSE i \in 1..Len(s) : P(s[i]) /\ \A j \in 1..(i - 1) : ~P(s[j])
    ELSE 0

\* ------------------------------------------------------------ initial data
InitialUsers ==
    << [id |-> "user-1", email |-> "pre@example.com", role |-> PRE, team |-> ONBOARDING,
        managerId |-> "user-bdm-1"],
       [id |-> "user-2", email |-> "admin@example.com", role |-> ADMIN, team |-> Null,
        managerId |-> Null],
       [id |-> "user-asm-1", email |-> "asm@example.com", role |-> ASM, team |-> ONBOARDING,
        managerId |-> Null],
       [id |-> "user-bdm-1", email |-> "bdm@example.com", role |-> BDM, team |-> ONBOARDING,
        managerId |-> "user-asm-1"] >>

InitialMessages ==
    << [id |-> 1, errorTypeId |-> "et-1", message |-> "auto-resolved"] >>

InitialLogs ==
    << [id |-> 1, ticketId |-> 1, userId |-> "user-1", action |-> "CREATE", timestamp |-> 0,
        details |-> [kind |-> "seed", uid |-> Null, ticketId |-> UnknownId, status |-> Null]] >>

\* generateTickets: tickets of earlier sessions, any error type and status
GeneratedTickets ==
    { [id |-> 1, uid |-> "UID500", preId |-> "user-1", team |-> ONBOARDING,
       errorTypeId |-> et, status |-> st, comment |-> "",
       createdAt |-> 0, updatedAt |-> 1] : et \in ErrorTypeIds, st \in TicketStatus }

\* store.ts:65
NotAvailable == [text |-> "N/A", tenths |-> 0]

InitialKpis == [activeTickets |-> 0, closedTickets |-> 0, avgTimeToSolve |-> NotAvailable]

\* no call of getSubordinateIds has been made
NoCall == [managerId |-> Null, allUsers |-> <<>>, queue |-> <<>>, head |-> 0,
           visited |-> {}, subordinates |-> <<>>, returned |-> FALSE]

Init ==
    /\ user = <<>>
    /\ team = Null
    /\ mockUsers = InitialUsers
    /\ mockTickets \in {<<>>} \cup { <<t>> : t \in GeneratedTickets }
    /\ mockMessages = InitialMessages
    /\ mockLogs = InitialLogs
    /\ mockNotifications = <<>>
    /\ mockAdminNotifications = <<>>
    /\ tickets = <<>>
    /\ notifications = <<>>
    /\ adminNotifications = <<>>
    /\ kpis = InitialKpis
    /\ bfs = NoCall
    /\ users = <<>>
    /\ messages = <<>>
    /\ messagesAliased = FALSE
    /\ logs = <<>>
    /\ clock = ClockStart
    /\ pending = <<>>
    /\ outcome = "none"

\* ----------------------------------------------------------- session store
login(email) ==
    LET i == FindIndex(mockUsers, LAMBDA u : u.email = email) IN
    /\ IF i > 0
       THEN /\ user' = <<mockUsers[i]>>
            /\ team' = mockUsers[i].team
            /\ UNCHANGED <<outcome, kpis, bfs>>
       ELSE /\ UNCHANGED sessionVars
            /\ UNCHANGED <<outcome, kpis, bfs>>
    /\ UNCHANGED <<mockVars, ticketStoreVars, adminStoreVars, clock, pending>>

logout ==
    /\ user' = <<>>
    /\ team' = Null
    /\ UNCHANGED <<outcome, kpis, bfs>>
    /\ UNCHANGED <<mockVars, ticketStoreVars, adminStoreVars, clock, pending>>

setTeam(t) ==
    /\ team' = t
    /\ UNCHANGED <<outcome, kpis, bfs>>
    /\ UNCHANGED <<user, mockVars, ticketStoreVars, adminStoreVars, clock, pending>>

\* ------------------------------------------------------------------ timers
\* apiDelay: what follows the await runs later, after the timers set before it
Cont(k, ticketId, userId, action, details) ==
    [k |-> k, ticketId |-> ticketId, userId |-> userId, action |-> action,
     details |-> details]

NoDetails == [kind |-> Null, uid |-> Null, ticketId |-> UnknownId, status |-> Null]

FetchCont(k) == Cont(k, UnknownId, Null, Null, NoDetails)

PendingLogs == Len(SelectSeq(pending, LAMBDA c : c.k = "addLog"))

\* room for one more continuation, and for the log entry it will write
CanDelay   == Len(pending) < MaxPending
CanDelayLog == CanDelay /\ Len(mockLogs) + PendingLogs < MaxLogs

\* mutant: the clock runs backwards
TickBackwards ==
    /\ clock > 0
    /\ clock' = clock - 1
    /\ UNCHANGED <<outcome, kpis, bfs>>
    /\ UNCHANGED <<sessionVars, mockVars, ticketStoreVars, adminStoreVars, pending>>

Tick ==
    /\ clock < MaxClock
    /\ clock' = clock + 1
    /\ UNCHANGED <<outcome, kpis, bfs>>
    /\ UNCHANGED <<sessionVars, mockVars, ticketStoreVars, adminStoreVars, pending>>

\* ------------------------------------------------------------ ticket store
\* the text of a notification: the template and what it embeds
Msg(kind, uid, num, text) == [kind |-> kind, uid |-> uid, num |-> num, text |-> text]

AdminNotification(id, ticketId, message) ==
    [id |-> id, ticketId |-> ticketId, message |-> message, timestamp |-> clock,
     isRead |-> FALSE]

\* mutant: the notification is created read
SystemNotificationRead(prefix, ticketId, preId, uid, message) ==
    [id |-> <<prefix, clock>>, ticketId |-> ticketId, preId |-> preId, uid |-> uid,
     message |-> message, timestamp |-> clock, isRead |-> TRUE]

SystemNotification(prefix, ticketId, preId, uid, message) ==
    [id |-> <<prefix, clock>>, ticketId |-> ticketId, preId |-> preId, uid |-> uid,
     message |-> message, timestamp |-> clock, isRead |-> FALSE]

\* mutant: the session's team is used for every role
TeamOfSessionOnly(u, sessionTeam) == sessionTeam

\* store.ts:89, the team a ticket is filed under
TeamOf(u, sessionTeam) == IF u.role = PRE THEN sessionTeam ELSE u.team

\* store.ts:96, mockMessages.find: 0 when no message is configured
AutomatedMessageToSend(errorTypeId) ==
    FindIndex(mockMessages, LAMBDA m : m.errorTypeId = errorTypeId)

\* mutant: the prior ticket is matched on the uid alone
ExistingTicketAnyErrorType(uid, errorTypeId) ==
    FindIndex(tickets, LAMBDA t : t.uid = uid)

\* store.ts:100, get().tickets.find over the store's view of the tickets
ExistingTicket(uid, errorTypeId) ==
    FindIndex(tickets, LAMBDA t : t.uid = uid /\ t.errorTypeId = errorTypeId)

\* mutant: a resubmission escalates whether or not a message is configured
InitialStatusExistingFirst(hasMessage, hasExisting) ==
    IF hasExisting THEN ESCALATED
    ELSE IF hasMessage THEN CLOSED ELSE IN_PROGRESS

\* store.ts:95-111
InitialStatus(hasMessage, hasExisting) ==
    IF hasMessage
    THEN (IF hasExisting THEN ESCALATED ELSE CLOSED)
    ELSE IN_PROGRESS

\* mutant: the notification is written without the ticket's id
CreateAdminNotificationsUnlinked(t) ==
    << AdminNotification(clock, UnknownId,
           IF t.status = ESCALATED THEN Msg("re-submitted and escalated", t.uid, UnknownId, Null)
                                   ELSE Msg("new ticket created", t.uid, UnknownId, Null)) >>

\* mutant: the admins are told of a new ticket in every case
CreateAdminNotificationsPlain(t) ==
    << [id |-> clock, ticketId |-> t.id,
        message |-> [kind |-> "new ticket created", uid |-> t.uid, num |-> UnknownId,
                     text |-> Null],
        timestamp |-> clock, isRead |-> FALSE] >>

\* store.ts:125-160, the notifications a new ticket brings
CreateAdminNotifications(t) ==
    << AdminNotification(clock, t.id,
           IF t.status = ESCALATED THEN Msg("re-submitted and escalated", t.uid, UnknownId, Null)
                                   ELSE Msg("new ticket created", t.uid, UnknownId, Null)) >>

CreateSystemNotifications(t, m) ==
    (IF t.status = CLOSED /\ m > 0
     THEN << SystemNotification("notif", t.id, t.preId, t.uid,
                 Msg("automated", t.uid, t.id, mockMessages[m].message)) >>
     ELSE <<>>)
    \o
    (IF t.status = ESCALATED
     THEN << SystemNotification("notif", t.id, t.preId, t.uid,
                 Msg("submission escalated", t.uid, t.id, Null)) >>
     ELSE <<>>)

\* mutant: the store is refreshed from the mock arrays before the call is rejected
ThrowAfterSet(error) ==
    /\ outcome' = error
    /\ UNCHANGED <<kpis, bfs>>
    /\ tickets' = mockTickets
    /\ notifications' = mockNotifications
    /\ adminNotifications' = mockAdminNotifications
    /\ UNCHANGED <<sessionVars, mockVars, adminStoreVars, clock, pending>>

\* store.ts:82-84 and 91-93: the call is rejected before anything is written
Throw(error) ==
    /\ outcome' = error
    /\ UNCHANGED <<kpis, bfs>>
    /\ UNCHANGED <<sessionVars, mockVars, ticketStoreVars, adminStoreVars, clock, pending>>

addTicket(d) ==
    IF user = <<>>
    THEN Throw("SessionInvalid")
    ELSE
    LET preId == user[1].id
        tm    == TeamOf(user[1], team)
    IN
    IF preId = "" \/ tm = Null
    THEN Throw("TeamUnresolved")
    ELSE
    LET m      == AutomatedMessageToSend(d.errorTypeId)
        status == InitialStatus(m > 0, ExistingTicket(d.uid, d.errorTypeId) > 0)
        newTicket == [id |-> clock, uid |-> d.uid, preId |-> preId, team |-> tm,
                      errorTypeId |-> d.errorTypeId, status |-> status,
                      comment |-> d.comment, createdAt |-> clock, updatedAt |-> clock]
        newMockTickets == Unshift(mockTickets, newTicket)
        newMockNotifications == CreateSystemNotifications(newTicket, m) \o mockNotifications
        newMockAdminNotifications == CreateAdminNotifications(newTicket) \o mockAdminNotifications
    IN
    /\ Len(newMockTickets) <= MaxTickets
    /\ Len(newMockNotifications) <= MaxNotifs
    /\ Len(newMockAdminNotifications) <= MaxNotifs
    /\ CanDelayLog
    /\ mockTickets' = newMockTickets
    /\ mockNotifications' = newMockNotifications
    /\ mockAdminNotifications' = newMockAdminNotifications
    /\ tickets' = newMockTickets
    /\ notifications' = newMockNotifications
    /\ adminNotifications' = newMockAdminNotifications
    /\ pending' = Append(pending,
           Cont("addLog", newTicket.id, preId, "CREATE",
                [kind |-> "created", uid |-> newTicket.uid, ticketId |-> UnknownId,
                 status |-> status]))
    /\ outcome' = "created"
    /\ UNCHANGED <<kpis, bfs>>
    /\ UNCHANGED <<sessionVars, mockUsers, mockMessages, mockLogs, adminStoreVars, clock>>

\* mutant: the partial is stored whole, its absent fields included
MergeReplacing(t, p) ==
    [t EXCEPT !.status    = IF p.status = Absent THEN IN_PROGRESS ELSE p.status,
              !.comment   = IF p.comment = Absent THEN "" ELSE p.comment,
              !.updatedAt = clock]

\* mutant: a resolved ticket keeps its status
MergeKeepsResolved(t, p) ==
    [t EXCEPT !.status    = IF p.status = Absent \/ t.status \in {COMPLETED, CLOSED}
                            THEN @ ELSE p.status,
              !.comment   = IF p.comment = Absent THEN @ ELSE p.comment,
              !.updatedAt = clock]

\* store.ts:176-187, the spread of the partial over the stored ticket
Merge(t, p) ==
    [t EXCEPT !.status    = IF p.status = Absent THEN @ ELSE p.status,
              !.comment   = IF p.comment = Absent THEN @ ELSE p.comment,
              !.updatedAt = clock]

\* mutant: the prior status is not looked at
EscalationFiresAlways(p, originalStatus) == p.status = ESCALATED

\* store.ts:190, the manual-escalation rule
EscalationFires(p, originalStatus) ==
    p.status = ESCALATED /\ originalStatus # ESCALATED

\* mutant: a resolved status notifies again when it is set again
ResolutionFiresOnRepeat(updatedTicket, originalStatus) ==
    updatedTicket.status \in {COMPLETED, CLOSED}

\* mutant: any change of status counts as a resolution
ResolutionFiresOnAnyChange(updatedTicket, originalStatus) ==
    originalStatus # updatedTicket.status

\* store.ts:212-215, the resolution rule
ResolutionFires(updatedTicket, originalStatus) ==
    /\ updatedTicket.status \in {COMPLETED, CLOSED}
    /\ originalStatus # updatedTicket.status

\* store.ts:221, updatedTicket.comment || 'No comment provided.'
ResolutionComment(updatedTicket) ==
    IF updatedTicket.comment = "" THEN "No comment provided." ELSE updatedTicket.comment

\* store.ts:190-198
UpdateAdminNotifications(p, originalTicket) ==
    IF EscalationFires(p, originalTicket.status)
    THEN << AdminNotification(clock, p.id, Msg("escalated", originalTicket.uid, UnknownId, Null)) >>
    ELSE <<>>

\* mutant: the notifications of an update go to the one who made it
UpdateSystemNotificationsToActor(p, originalTicket, updatedTicket) ==
    (IF ResolutionFires(updatedTicket, originalTicket.status)
     THEN << SystemNotification("notif", updatedTicket.id, user[1].id, updatedTicket.uid,
                 Msg("resolved", updatedTicket.uid, updatedTicket.id,
                     ResolutionComment(updatedTicket))) >>
     ELSE <<>>)
    \o
    (IF EscalationFires(p, originalTicket.status)
     THEN << SystemNotification("notif-escalated", updatedTicket.id, user[1].id,
                 updatedTicket.uid,
                 Msg("manually escalated", updatedTicket.uid, updatedTicket.id, Null)) >>
     ELSE <<>>)

\* store.ts:200-226, newest first
UpdateSystemNotifications(p, originalTicket, updatedTicket) ==
    (IF ResolutionFires(updatedTicket, originalTicket.status)
     THEN << SystemNotification("notif", updatedTicket.id, updatedTicket.preId, updatedTicket.uid,
                 Msg("resolved", updatedTicket.uid, updatedTicket.id,
                     ResolutionComment(updatedTicket))) >>
     ELSE <<>>)
    \o
    (IF EscalationFires(p, originalTicket.status)
     THEN << SystemNotification("notif-escalated", updatedTicket.id, updatedTicket.preId,
                 updatedTicket.uid,
                 Msg("manually escalated", updatedTicket.uid, updatedTicket.id, Null)) >>
     ELSE <<>>)

\* store.ts:233-236
UpdateDetails(p, originalStatus) ==
    IF p.status # Absent /\ p.status # originalStatus
    THEN [kind |-> "status changed", uid |-> Null, ticketId |-> p.id, status |-> p.status]
    ELSE [kind |-> "details updated", uid |-> Null, ticketId |-> p.id, status |-> Null]

updateTicket(p) ==
    IF user = <<>> \/ user[1].id = ""
    THEN /\ outcome' = "no user"
         /\ UNCHANGED <<kpis, bfs>>
         /\ UNCHANGED <<sessionVars, mockVars, ticketStoreVars, adminStoreVars, clock, pending>>
    ELSE
    LET adminId     == user[1].id
        ticketIndex == FindIndex(mockTickets, LAMBDA t : t.id = p.id)
        found       == ticketIndex > 0
        originalTicket == mockTickets[ticketIndex]
        originalStatus == IF found THEN originalTicket.status ELSE Null
        updatedTicket  == Merge(originalTicket, p)
        newMockTickets ==
            IF found THEN [mockTickets EXCEPT ![ticketIndex] = updatedTicket] ELSE mockTickets
        newMockNotifications ==
            IF found
            THEN UpdateSystemNotifications(p, originalTicket, updatedTicket) \o mockNotifications
            ELSE mockNotifications
        newMockAdminNotifications ==
            IF found
            THEN UpdateAdminNotifications(p, originalTicket) \o mockAdminNotifications
            ELSE mockAdminNotifications
    IN
    /\ Len(newMockNotifications) <= MaxNotifs
    /\ Len(newMockAdminNotifications) <= MaxNotifs
    /\ CanDelayLog
    /\ mockTickets' = newMockTickets
    /\ mockNotifications' = newMockNotifications
    /\ mockAdminNotifications' = newMockAdminNotifications
    /\ tickets' = newMockTickets
    /\ notifications' = newMockNotifications
    /\ adminNotifications' = newMockAdminNotifications
    /\ pending' = Append(pending,
           Cont("addLog", p.id, adminId, "UPDATE", UpdateDetails(p, originalStatus)))
    /\ outcome' = IF found THEN "updated" ELSE "no ticket"
    /\ UNCHANGED <<kpis, bfs>>
    /\ UNCHANGED <<sessionVars, mockUsers, mockMessages, mockLogs, adminStoreVars, clock>>

\* mutant: the flag of the notification found is flipped
MarkReadToggle(list, notificationId) ==
    LET notifIndex == FindIndex(list, LAMBDA n : n.id = notificationId) IN
    IF notifIndex > 0 THEN [list EXCEPT ![notifIndex].isRead = ~@] ELSE list

\* store.ts:245-260
MarkRead(list, notificationId) ==
    LET notifIndex == FindIndex(list, LAMBDA n : n.id = notificationId) IN
    IF notifIndex > 0 THEN [list EXCEPT ![notifIndex].isRead = TRUE] ELSE list

markAdminNotificationAsRead(notificationId) ==
    /\ mockAdminNotifications' = MarkRead(mockAdminNotifications, notificationId)
    /\ adminNotifications' = mockAdminNotifications'
    /\ UNCHANGED <<outcome, kpis, bfs>>
    /\ UNCHANGED <<sessionVars, mockUsers, mockTickets, mockMessages, mockLogs,
                   mockNotifications, tickets, notifications, adminStoreVars, clock, pending>>

markSystemNotificationAsRead(notificationId) ==
    /\ mockNotifications' = MarkRead(mockNotifications, notificationId)
    /\ notifications' = mockNotifications'
    /\ UNCHANGED <<outcome, kpis, bfs>>
    /\ UNCHANGED <<sessionVars, mockUsers, mockTickets, mockMessages, mockLogs,
                   mockAdminNotifications, tickets, adminNotifications, adminStoreVars,
                   clock, pending>>

\* store.ts:294, the milliseconds of a day
MsPerDay == 1000 * 60 * 60 * 24

\* mutant: only the tickets in progress count as active
ActiveStatusesInProgressOnly == {IN_PROGRESS}

\* store.ts:276
ActiveStatuses == {IN_PROGRESS, ESCALATED}

\* store.ts:280
ClosedStatuses == {COMPLETED, CLOSED}

\* store.ts:287-291, the reduce over the closed or completed tickets
RECURSIVE TotalSolveTime(_)
TotalSolveTime(closedOrCompletedTickets) ==
    IF closedOrCompletedTickets = <<>> THEN 0
    ELSE (Head(closedOrCompletedTickets).updatedAt - Head(closedOrCompletedTickets).createdAt)
         + TotalSolveTime(Tail(closedOrCompletedTickets))

\* store.ts:293-295, (totalSolveTime / closedTickets / MsPerDay).toFixed(1) as
\* a number of tenths of a day, a half rounded up
AvgTenths(totalSolveTime, closedTickets) ==
    LET d == closedTickets * (MsPerDay \div 10)
    IN (2 * totalSolveTime + d) \div (2 * d)

\* store.ts:274-299
Kpis(filteredTickets) ==
    LET activeTickets == Len(SelectSeq(filteredTickets, LAMBDA t : t.status \in ActiveStatuses))
        closedOrCompletedTickets ==
            SelectSeq(filteredTickets, LAMBDA t : t.status \in ClosedStatuses)
        closedTickets == Len(closedOrCompletedTickets)
    IN [activeTickets |-> activeTickets,
        closedTickets |-> closedTickets,
        avgTimeToSolve |->
            IF closedTickets > 0
            THEN [text |-> "days",
                  tenths |-> AvgTenths(TotalSolveTime(closedOrCompletedTickets), closedTickets)]
            ELSE NotAvailable]

calculateKPIs(filteredTickets) ==
    /\ kpis' = Kpis(filteredTickets)
    /\ UNCHANGED <<sessionVars, mockVars, tickets, notifications, adminNotifications,
                   adminStoreVars, clock, pending, outcome, bfs>>

\* store.ts:66-77, the fetches: the data arrives behind an apiDelay
fetchTickets ==
    /\ CanDelay
    /\ pending' = Append(pending, FetchCont("fetchTickets"))
    /\ UNCHANGED <<outcome, kpis, bfs>>
    /\ UNCHANGED <<sessionVars, mockVars, ticketStoreVars, adminStoreVars, clock>>

fetchTicketsDone ==
    /\ pending # <<>> /\ Head(pending).k = "fetchTickets"
    /\ tickets' = mockTickets
    /\ pending' = Tail(pending)
    /\ UNCHANGED <<outcome, kpis, bfs>>
    /\ UNCHANGED <<sessionVars, mockVars, notifications, adminNotifications,
                   adminStoreVars, clock>>

\* ------------------------------------------------------------- admin store
\* mutant: the continuation ends without recording its entry
addLogLost ==
    /\ pending # <<>> /\ Head(pending).k = "addLog"
    /\ pending' = Tail(pending)
    /\ UNCHANGED <<outcome, kpis, bfs>>
    /\ UNCHANGED <<sessionVars, mockVars, ticketStoreVars, adminStoreVars, clock>>

\* mutant: the newest entry is replaced by the one being recorded
addLogOverwrite ==
    /\ pending # <<>> /\ Head(pending).k = "addLog"
    /\ LET logData == Head(pending)
           newLog  == [id |-> clock, ticketId |-> logData.ticketId, userId |-> logData.userId,
                       action |-> logData.action, timestamp |-> clock,
                       details |-> logData.details]
       IN /\ mockLogs' = Unshift(Tail(mockLogs), newLog)
          /\ logs' = mockLogs'
          /\ UNCHANGED <<outcome, kpis, bfs>>
    /\ pending' = Tail(pending)
    /\ UNCHANGED <<sessionVars, mockUsers, mockTickets, mockMessages, mockNotifications,
                   mockAdminNotifications, ticketStoreVars, users, messages,
                   messagesAliased, clock>>

\* store.ts:370-379, called by the ticket store once its apiDelay is over
addLog ==
    /\ pending # <<>> /\ Head(pending).k = "addLog"
    /\ LET logData == Head(pending)
           newLog  == [id |-> clock, ticketId |-> logData.ticketId, userId |-> logData.userId,
                       action |-> logData.action, timestamp |-> clock,
                       details |-> logData.details]
       IN /\ mockLogs' = Unshift(mockLogs, newLog)
          /\ logs' = mockLogs'
          /\ UNCHANGED <<outcome, kpis, bfs>>
    /\ pending' = Tail(pending)
    /\ UNCHANGED <<sessionVars, mockUsers, mockTickets, mockMessages, mockNotifications,
                   mockAdminNotifications, ticketStoreVars, users, messages,
                   messagesAliased, clock>>

\* store.ts:331-340: the store is handed the mock arrays themselves
fetchAdminData ==
    /\ CanDelay
    /\ pending' = Append(pending, FetchCont("fetchAdminData"))
    /\ UNCHANGED <<outcome, kpis, bfs>>
    /\ UNCHANGED <<sessionVars, mockVars, ticketStoreVars, adminStoreVars, clock>>

fetchAdminDataDone ==
    /\ pending # <<>> /\ Head(pending).k = "fetchAdminData"
    /\ users' = mockUsers
    /\ messages' = mockMessages
    /\ messagesAliased' = TRUE
    /\ logs' = mockLogs
    /\ pending' = Tail(pending)
    /\ UNCHANGED <<outcome, kpis, bfs>>
    /\ UNCHANGED <<sessionVars, mockVars, ticketStoreVars, clock>>

\* store.ts:341-346
NewUserData ==
    { [email |-> "new@example.com", role |-> PRE, team |-> Null, managerId |-> Null] }

addUser(userData) ==
    /\ Len(mockUsers) < MaxUsers
    /\ mockUsers' = Append(mockUsers,
           [id |-> "user-" \o ToString(clock), email |-> userData.email,
            role |-> userData.role, team |-> userData.team,
            managerId |-> userData.managerId])
    /\ users' = mockUsers'
    /\ UNCHANGED <<outcome, kpis, bfs>>
    /\ UNCHANGED <<sessionVars, mockTickets, mockMessages, mockLogs, mockNotifications,
                   mockAdminNotifications, ticketStoreVars, messages, messagesAliased,
                   logs, clock, pending>>

\* store.ts:409-414: push on the mock array, then append to the store's list
addMessage(messageData) ==
    LET newMessage == [id |-> clock, errorTypeId |-> messageData.errorTypeId,
                       message |-> messageData.message]
    IN
    /\ Len(mockMessages) < MaxMessages
    /\ mockMessages' = Append(mockMessages, newMessage)
    /\ messages' = Append(IF messagesAliased THEN mockMessages' ELSE messages, newMessage)
    /\ messagesAliased' = FALSE
    /\ UNCHANGED <<outcome, kpis, bfs>>
    /\ UNCHANGED <<sessionVars, mockUsers, mockTickets, mockLogs, mockNotifications,
                   mockAdminNotifications, ticketStoreVars, users, logs, clock, pending>>

\* store.ts:430-437: splice the first match off the mock array, filter the store's list
deleteMessage(messageId) ==
    LET msgIndex == FindIndex(mockMessages, LAMBDA m : m.id = messageId)
        spliced  == IF msgIndex > 0
                    THEN SubSeq(mockMessages, 1, msgIndex - 1)
                         \o SubSeq(mockMessages, msgIndex + 1, Len(mockMessages))
                    ELSE mockMessages
    IN
    /\ mockMessages' = spliced
    /\ messages' = SelectSeq(IF messagesAliased THEN spliced ELSE messages,
                             LAMBDA m : m.id # messageId)
    /\ messagesAliased' = FALSE
    /\ UNCHANGED <<outcome, kpis, bfs>>
    /\ UNCHANGED <<sessionVars, mockUsers, mockTickets, mockLogs, mockNotifications,
                   mockAdminNotifications, ticketStoreVars, users, logs, clock, pending>>

\* store.ts:356-361
updateUser(updatedUser) ==
    LET userIndex == FindIndex(mockUsers, LAMBDA u : u.id = updatedUser.id) IN
    /\ mockUsers' = IF userIndex > 0 THEN [mockUsers EXCEPT ![userIndex] = updatedUser]
                                      ELSE mockUsers
    /\ users' = [i \in 1..Len(users) |->
                    IF users[i].id = updatedUser.id THEN updatedUser ELSE users[i]]
    /\ UNCHANGED <<outcome, kpis, bfs>>
    /\ UNCHANGED <<sessionVars, mockTickets, mockMessages, mockLogs, mockNotifications,
                   mockAdminNotifications, ticketStoreVars, messages, messagesAliased,
                   logs, clock, pending>>

\* store.ts:362-369
deleteUser(userId) ==
    LET userIndex == FindIndex(mockUsers, LAMBDA u : u.id = userId) IN
    /\ mockUsers' = IF userIndex > 0
                    THEN SubSeq(mockUsers, 1, userIndex - 1)
                         \o SubSeq(mockUsers, userIndex + 1, Len(mockUsers))
                    ELSE mockUsers
    /\ users' = SelectSeq(users, LAMBDA u : u.id # userId)
    /\ UNCHANGED <<outcome, kpis, bfs>>
    /\ UNCHANGED <<sessionVars, mockTickets, mockMessages, mockLogs, mockNotifications,
                   mockAdminNotifications, ticketStoreVars, messages, messagesAliased,
                   logs, clock, pending>>

\* ------------------------------------------------- getSubordinateIds (part_002)
\* the call runs synchronously: no other handler runs before it has returned
NoCallRunning == bfs = NoCall \/ bfs.returned

\* mutant: the visited set starts empty
getSubordinateIdsVisitedEmpty(managerId, allUsers) ==
    /\ NoCallRunning
    /\ bfs' = [managerId |-> managerId, allUsers |-> allUsers, queue |-> <<managerId>>,
               head |-> 0, visited |-> {}, subordinates |-> <<>>, returned |-> FALSE]
    /\ UNCHANGED <<sessionVars, mockVars, ticketStoreVars, adminStoreVars, clock, pending,
                   outcome, kpis>>

\* part_002:31-36, the locals before the loop
getSubordinateIds(managerId, allUsers) ==
    /\ NoCallRunning
    /\ bfs' = [managerId |-> managerId, allUsers |-> allUsers, queue |-> <<managerId>>,
               head |-> 0, visited |-> {managerId}, subordinates |-> <<>>,
               returned |-> FALSE]
    /\ UNCHANGED <<sessionVars, mockVars, ticketStoreVars, adminStoreVars, clock, pending,
                   outcome, kpis>>

\* part_002:40
DirectSubordinates(allUsers, currentManagerId) ==
    SelectSeq(allUsers, LAMBDA u : u.managerId = currentManagerId)

\* mutant: a subordinate is listed whether or not it was visited
RECURSIVE VisitAllUnchecked(_, _)
VisitAllUnchecked(directSubordinates, locals) ==
    IF directSubordinates = <<>> THEN locals
    ELSE LET subordinate == Head(directSubordinates) IN
         VisitAllUnchecked(Tail(directSubordinates),
             [locals EXCEPT !.visited = @ \cup {subordinate.id},
                            !.subordinates = Append(@, subordinate.id),
                            !.queue = Append(@, subordinate.id)])

\* part_002:42-48, the for loop over the direct subordinates
RECURSIVE VisitAll(_, _)
VisitAll(directSubordinates, locals) ==
    IF directSubordinates = <<>> THEN locals
    ELSE LET subordinate == Head(directSubordinates) IN
         VisitAll(Tail(directSubordinates),
             IF subordinate.id \notin locals.visited
             THEN [locals EXCEPT !.visited = @ \cup {subordinate.id},
                                 !.subordinates = Append(@, subordinate.id),
                                 !.queue = Append(@, subordinate.id)]
             ELSE locals)

\* part_002:37-49, one turn of the while loop
whileLoop ==
    /\ bfs # NoCall /\ ~bfs.returned
    /\ bfs.head < Len(bfs.queue)
    /\ LET currentManagerId == bfs.queue[bfs.head + 1]
       IN bfs' = VisitAll(DirectSubordinates(bfs.allUsers, currentManagerId),
                          [bfs EXCEPT !.head = @ + 1])
    /\ UNCHANGED <<sessionVars, mockVars, ticketStoreVars, adminStoreVars, clock, pending,
                   outcome, kpis>>

\* part_002:50
returnSubordinates ==
    /\ bfs # NoCall /\ ~bfs.returned
    /\ bfs.head >= Len(bfs.queue)
    /\ bfs' = [bfs EXCEPT !.returned = TRUE]
    /\ UNCHANGED <<sessionVars, mockVars, ticketStoreVars, adminStoreVars, clock, pending,
                   outcome, kpis>>

\* ------------------------------------------------------------------ inputs
Drafts == [uid : Uids, errorTypeId : ErrorTypeIds, comment : {""}]

\* the drafts for one subject
SessionDrafts == { d \in Drafts : d.uid = "UID500" }

TicketIds == { mockTickets[i].id : i \in 1..Len(mockTickets) } \cup {UnknownId}

Partials == [id : TicketIds, status : TicketStatus \cup {Absent},
             comment : Comments \cup {Absent}]

MessageData == [errorTypeId : ErrorTypeIds, message : MessageTexts]

MessageIds == { mockMessages[i].id : i \in 1..Len(mockMessages) } \cup {UnknownId}

AdminNotificationIds ==
    { mockAdminNotifications[i].id : i \in 1..Len(mockAdminNotifications) } \cup {UnknownId}

SystemNotificationIds ==
    { mockNotifications[i].id : i \in 1..Len(mockNotifications) } \cup {<<"notif", UnknownId>>}

\* A session of one representative over fixed reference data: tickets for one
\* subject are created and updated, the ticket list is fetched, the audit
\* entries arrive.
Next ==
    \/ login("pre@example.com")
    \/ logout
    \/ \E d \in SessionDrafts : addTicket(d)
    \/ \E p \in Partials : updateTicket(p)
    \/ fetchTickets
    \/ fetchTicketsDone
    \/ addLog
    \/ Tick

Spec == Init /\ [][Next]_vars

\* Tickets are created for one subject while an administrator deletes
\* automated messages and writes one for the error type that has none.  The
\* seeded ticket, when there is one, is a closed one.
InitCatalog ==
    /\ Init
    /\ \A i \in 1..Len(mockTickets) : mockTickets[i].status = CLOSED

NextCatalog ==
    \/ login("pre@example.com")
    \/ \E d \in SessionDrafts : addTicket(d)
    \/ addMessage([errorTypeId |-> "et-3", message |-> "auto-resolved"])
    \/ \E id \in MessageIds \ {UnknownId} : deleteMessage(id)
    \/ fetchTickets
    \/ fetchTicketsDone
    \/ addLog
    \/ Tick

SpecCatalog == InitCatalog /\ [][NextCatalog]_vars

\* An administrator updates the seeded ticket, from every status it can have.
InitUpdate ==
    /\ Init
    /\ mockTickets # <<>>
    /\ mockTickets[1].errorTypeId = "et-1"

KnownPartials == { p \in Partials : p.id # UnknownId }

NextUpdate ==
    \/ login("admin@example.com")
    \/ logout
    \/ \E p \in KnownPartials : updateTicket(p)
    \/ addLog
    \/ Tick

SpecUpdate == InitUpdate /\ [][NextUpdate]_vars

\* Every kind of user logs in, a team is selected and tickets are filed for
\* one subject and one error type.
InitSession ==
    /\ Init
    /\ mockTickets # <<>>
    /\ mockTickets[1].status = IN_PROGRESS
    /\ mockTickets[1].errorTypeId = "et-1"

NextSession ==
    \/ \E email \in Emails : login(email)
    \/ logout
    \/ setTeam(RETARGETING)
    \/ \E userData \in NewUserData : addUser(userData)
    \/ addTicket([uid |-> "UID500", errorTypeId |-> "et-1", comment |-> ""])
    \/ addLog
    \/ Tick

SpecSession == InitSession /\ [][NextSession]_vars

\* A representative files tickets for one subject and updates them while the
\* admin data is fetched; the timers behind apiDelay fire (setTimeout,
\* store.ts:164, 231 and 332), so a queued continuation is eventually run.
InitAudit ==
    /\ Init
    /\ mockTickets = <<>>

NextAudit ==
    \/ login("pre@example.com")
    \/ \E d \in SessionDrafts : addTicket(d)
    \/ \E p \in KnownPartials : updateTicket(p)
    \/ addLog
    \/ fetchAdminData
    \/ fetchAdminDataDone
    \/ Tick

SpecAudit ==
    InitAudit /\ [][NextAudit]_vars /\ WF_vars(addLog) /\ WF_vars(fetchAdminDataDone)

\* A representative files tickets for one subject and marks notifications of
\* both kinds as read while the audit entries arrive.
NextRead ==
    \/ login("pre@example.com")
    \/ \E d \in SessionDrafts : addTicket(d)
    \/ \E id \in AdminNotificationIds : markAdminNotificationAsRead(id)
    \/ \E id \in SystemNotificationIds : markSystemNotificationAsRead(id)
    \/ addLog
    \/ Tick

SpecRead == InitAudit /\ [][NextRead]_vars

\* The dashboards fetch the tickets of earlier sessions and compute the KPIs
\* of a filtered part of the list (part_001:27-31, 1870-1879, part_002:67-80).
SolveTimes == {1, MsPerDay \div 20, MsPerDay}

GeneratedTicketLists ==
    UNION { { [i \in 1..n |->
                 [id |-> i, uid |-> "UID500", preId |-> "user-1", team |-> ONBOARDING,
                  errorTypeId |-> "et-1", status |-> f[i][1], comment |-> "",
                  createdAt |-> 1 - f[i][2], updatedAt |-> 1]] :
              f \in [1..n -> TicketStatus \X SolveTimes] } : n \in 0..MaxKpiTickets }

InitKPI ==
    /\ user = <<>>
    /\ team = Null
    /\ mockUsers = InitialUsers
    /\ mockTickets \in GeneratedTicketLists
    /\ mockMessages = InitialMessages
    /\ mockLogs = InitialLogs
    /\ mockNotifications = <<>>
    /\ mockAdminNotifications = <<>>
    /\ tickets = <<>>
    /\ notifications = <<>>
    /\ adminNotifications = <<>>
    /\ kpis = InitialKpis
    /\ bfs = NoCall
    /\ users = <<>>
    /\ messages = <<>>
    /\ messagesAliased = FALSE
    /\ logs = <<>>
    /\ clock = ClockStart
    /\ pending = <<>>
    /\ outcome = "none"

\* Array.prototype.filter: the elements a predicate keeps, in their order
Filtered(s, keep) ==
    LET F[i \in 0..Len(s)] ==
            IF i = 0 THEN <<>>
            ELSE IF keep[i] THEN Append(F[i - 1], s[i]) ELSE F[i - 1]
    IN F[Len(s)]

Filters(s) == [1..Len(s) -> BOOLEAN]

NextKPI ==
    \/ fetchTickets
    \/ fetchTicketsDone
    \/ \E keep \in Filters(tickets) : calculateKPIs(Filtered(tickets, keep))

SpecKPI == InitKPI /\ [][NextKPI]_vars

\* The team page resolves the subordinates of a manager over a user list of
\* any shape: any user may name any user, itself included, or none as its
\* manager.  The admin data has been fetched.
HierarchyIds == <<"M", "A", "B", "C", "D">>

HierarchyRoles == <<ASM, BDM, BDM, PRE, PRE>>

HierarchyUserLists ==
    UNION { { [i \in 1..n |->
                 [id |-> HierarchyIds[i], email |-> HierarchyIds[i], role |-> HierarchyRoles[i],
                  team |-> ONBOARDING, managerId |-> m[i]]] :
              m \in [1..n -> {Null} \cup { HierarchyIds[j] : j \in 1..n }] } :
            n \in 0..MaxHierarchyUsers }

InitHierarchy ==
    /\ user = <<>>
    /\ team = Null
    /\ mockUsers \in HierarchyUserLists
    /\ mockTickets = <<>>
    /\ mockMessages = InitialMessages
    /\ mockLogs = InitialLogs
    /\ mockNotifications = <<>>
    /\ mockAdminNotifications = <<>>
    /\ tickets = <<>>
    /\ notifications = <<>>
    /\ adminNotifications = <<>>
    /\ kpis = InitialKpis
    /\ bfs = NoCall
    /\ users = mockUsers
    /\ messages = mockMessages
    /\ messagesAliased = TRUE
    /\ logs = mockLogs
    /\ clock = ClockStart
    /\ pending = <<>>
    /\ outcome = "none"

\* the ids a call is made with: every user's and the empty one
ManagerIds == { users[i].id : i \in 1..Len(users) } \cup {""}

NextHierarchy ==
    \/ \E managerId \in ManagerIds : getSubordinateIds(managerId, users)
    \/ whileLoop
    \/ returnSubordinates

SpecHierarchy ==
    InitHierarchy /\ [][NextHierarchy]_vars
    /\ WF_vars(whileLoop) /\ WF_vars(returnSubordinates)

\* ------------------------------------------------ user management and the team
\* part_001:1158-1162, the managers the form offers for a role
Managers(role) ==
    IF role = PRE THEN SelectSeq(users, LAMBDA u : u.role = BDM)
    ELSE IF role = BDM THEN SelectSeq(users, LAMBDA u : u.role = ASM)
    ELSE <<>>

\* part_001:1168-1181 and 1268-1276: a listed user, saved as it is or, when the
\* form offers managers, with one of them or with '' ("Select a manager")
UserEdits ==
    UNION { { [users[i] EXCEPT !.managerId = m] :
                m \in {users[i].managerId} \cup
                      IF Managers(users[i].role) = <<>> THEN {}
                      ELSE {""} \cup { Managers(users[i].role)[j].id :
                                         j \in 1..Len(Managers(users[i].role)) } } :
            i \in 1..Len(users) }

\* the ids a resolver call is made with: every seeded or listed user's, and ''
TeamManagerIds ==
    { InitialUsers[i].id : i \in 1..Len(InitialUsers) }
    \cup { users[i].id : i \in 1..Len(users) } \cup {""}

\* the user list is managed first and the team resolved on what it has become
NextTeam ==
    \/ bfs = NoCall /\ fetchAdminData
    \/ bfs = NoCall /\ fetchAdminDataDone
    \/ bfs = NoCall /\ \E userData \in NewUserData : addUser(userData)
    \/ bfs = NoCall /\ \E updatedUser \in UserEdits : updateUser(updatedUser)
    \/ bfs = NoCall /\ \E i \in 1..Len(users) : deleteUser(users[i].id)
    \/ \E managerId \in TeamManagerIds : getSubordinateIds(managerId, users)
    \/ whileLoop
    \/ returnSubordinates

SpecTeam == Init /\ [][NextTeam]_vars

\* A representative files a ticket beside the seeded one, and the tickets are
\* updated, whatever status and comment they have.
InitPatch ==
    /\ Init
    /\ mockTickets # <<>>
    /\ mockTickets[1].errorTypeId = "et-1"
    /\ mockTickets[1].status = IN_PROGRESS

NextPatch ==
    \/ login("pre@example.com")
    \/ \E d \in SessionDrafts : addTicket(d)
    \/ \E p \in KnownPartials : updateTicket(p)
    \/ addLog
    \/ Tick

SpecPatch == InitPatch /\ [][NextPatch]_vars

\* A representative re-submits the seeded ticket and an administrator sets the
\* status of the tickets.
StatusPartials == { p \in KnownPartials : p.status # Absent /\ p.comment = Absent }

NextNotify ==
    \/ login("pre@example.com")
    \/ login("admin@example.com")
    \/ addTicket([uid |-> "UID500", errorTypeId |-> "et-1", comment |-> ""])
    \/ \E p \in StatusPartials : updateTicket(p)
    \/ addLog
    \/ Tick

SpecNotify == InitPatch /\ [][NextNotify]_vars

\* An administrator opens the admin page and edits the automated messages.
NextAdmin ==
    \/ fetchAdminData
    \/ fetchAdminDataDone
    \/ \E messageData \in MessageData : addMessage(messageData)
    \/ \E id \in MessageIds : deleteMessage(id)
    \/ Tick

SpecAdmin == Init /\ [][NextAdmin]_vars

\* ================================================================== claims
\* what a step put at the head of a newest-first list
Produced(after, before) == SubSeq(after, 1, Len(after) - Len(before))

\* some stored ticket has the pair (uid, errorTypeId)
StoredPair(uid, errorTypeId) ==
    \E i \in 1..Len(mockTickets) :
        mockTickets[i].uid = uid /\ mockTickets[i].errorTypeId = errorTypeId

\* an earlier addTicket of this session filed the pair
SubmittedPair(uid, errorTypeId) ==
    \E i \in 1..Len(mockTickets) :
        /\ mockTickets[i].uid = uid /\ mockTickets[i].errorTypeId = errorTypeId
        /\ mockTickets[i].createdAt >= ClockStart

HasMessage(errorTypeId) ==
    \E i \in 1..Len(mockMessages) : mockMessages[i].errorTypeId = errorTypeId

Created(d) == addTicket(d) /\ outcome' = "created"

\* C1: a ticket created for an error type with an automated message, when a
\* stored ticket already has its uid and error type, is Escalated and brings an
\* AdminNotification and a SystemNotification that reference it.
C1_ResubmissionEscalates ==
    [][\A d \in Drafts :
          (Created(d) /\ HasMessage(d.errorTypeId) /\ StoredPair(d.uid, d.errorTypeId))
          => LET t == Head(tickets')
                 sys == Produced(notifications', notifications)
                 adm == Produced(adminNotifications', adminNotifications)
             IN /\ t.status = ESCALATED
                /\ \E i \in 1..Len(adm) : adm[i].ticketId = t.id
                /\ \E i \in 1..Len(sys) : sys[i].ticketId = t.id]_vars

\* C2: a ticket created for an error type with an automated message, when no
\* stored ticket has its uid and error type, is Closed and brings exactly one
\* SystemNotification: it references the ticket, is addressed to the ticket's
\* representative and carries the text of the automated message.
C2_FirstSubmissionCloses ==
    [][\A d \in Drafts :
          (Created(d) /\ HasMessage(d.errorTypeId) /\ ~StoredPair(d.uid, d.errorTypeId))
          => LET t == Head(tickets')
                 sys == Produced(notifications', notifications)
                 texts == { mockMessages[i].message : i \in
                              { j \in 1..Len(mockMessages) :
                                  mockMessages[j].errorTypeId = d.errorTypeId } }
             IN /\ t.status = CLOSED
                /\ t.uid = d.uid /\ t.errorTypeId = d.errorTypeId
                /\ Len(sys) = 1
                /\ sys[1].ticketId = t.id
                /\ sys[1].preId = t.preId /\ t.preId = user[1].id
                /\ sys[1].message.kind = "automated"
                /\ sys[1].message.text \in texts
                /\ ~sys[1].isRead]_vars

C2_Witness ==
    /\ outcome = "created"
    /\ Len(tickets) >= 1 /\ Len(notifications) >= 1
    /\ tickets[1].status = CLOSED
    /\ notifications[1].ticketId = tickets[1].id
    /\ notifications[1].message.kind = "automated"
    /\ notifications[1].message.text = "auto-resolved"

\* C3: a ticket created for an error type without an automated message at the
\* time of the call is In Progress, whatever tickets exist for its uid, and
\* brings no SystemNotification.
C3_NoMessageInProgress ==
    [][\A d \in Drafts :
          (Created(d) /\ ~HasMessage(d.errorTypeId))
          => /\ Head(tickets').status = IN_PROGRESS
             /\ Head(tickets').uid = d.uid
             /\ notifications' = notifications
             /\ mockNotifications' = mockNotifications]_vars

C3_Witness ==
    /\ outcome = "created"
    /\ Len(tickets) >= 2
    /\ tickets[1].status = IN_PROGRESS
    /\ tickets[1].createdAt >= ClockStart
    /\ tickets[2].uid = tickets[1].uid /\ tickets[2].errorTypeId = tickets[1].errorTypeId
    /\ ~HasMessage(tickets[1].errorTypeId)
    /\ notifications = <<>>

\* what C4 asks of a later submission
ResubmissionAnnounced ==
    LET t == Head(tickets')
        adm == Produced(adminNotifications', adminNotifications)
    IN /\ t.status = ESCALATED
       /\ \E i \in 1..Len(adm) :
            /\ adm[i].ticketId = t.id
            /\ adm[i].message.kind = "re-submitted and escalated"
            /\ adm[i].message.uid = t.uid

\* C4 as stated: of the submissions of one pair for an error type with an
\* automated message, the first is Closed and every later one is Escalated and
\* announced to the admins as re-submitted.
C4_AsStated ==
    [][\A d \in Drafts :
          (Created(d) /\ HasMessage(d.errorTypeId))
          => IF SubmittedPair(d.uid, d.errorTypeId)
             THEN ResubmissionAnnounced
             ELSE Head(tickets').status = CLOSED]_vars

\* C4 amended: the first submission is Closed when no ticket with the pair was
\* stored before it; every later submission is Escalated and announced to the
\* admins as re-submitted.
C4_RepeatedSubmission ==
    [][\A d \in Drafts :
          (Created(d) /\ HasMessage(d.errorTypeId))
          => IF SubmittedPair(d.uid, d.errorTypeId)
             THEN ResubmissionAnnounced
             ELSE (~StoredPair(d.uid, d.errorTypeId) => Head(tickets').status = CLOSED)]_vars

C4_Witness ==
    /\ Len(tickets) = 2 /\ Len(adminNotifications) = 2
    /\ tickets[1].uid = tickets[2].uid /\ tickets[1].errorTypeId = tickets[2].errorTypeId
    /\ tickets[2].createdAt >= ClockStart
    /\ tickets[2].status = CLOSED
    /\ tickets[1].status = ESCALATED
    /\ adminNotifications[1].message.kind = "re-submitted and escalated"
    /\ adminNotifications[1].ticketId = tickets[1].id

\* C5 as stated: an updateTicket call without a resolvable user, or for an id
\* that matches no ticket, leaves the tickets, both kinds of notification and
\* the audit log as they were: the call writes none of them and no UPDATE audit
\* entry is written for an id that matches no ticket.
C5_TolerantUpdateIsNoOp ==
    [][/\ \A p \in Partials :
            (updateTicket(p) /\ outcome' \in {"no user", "no ticket"})
            => UNCHANGED <<mockTickets, mockNotifications, mockAdminNotifications, mockLogs>>
       /\ (addLog /\ Head(pending).action = "UPDATE")
            => \E i \in 1..Len(mockTickets) : mockTickets[i].id = Head(pending).ticketId]_vars

\* the outcome C6 asks of a call made in the current session
ExpectedOutcome ==
    IF user = <<>> THEN "SessionInvalid"
    ELSE IF user[1].role = PRE
         THEN (IF team = Null THEN "TeamUnresolved" ELSE "created")
         ELSE (IF user[1].team = Null THEN "TeamUnresolved" ELSE "created")

\* C6: addTicket fails with SessionInvalid when nobody is logged in, with
\* TeamUnresolved when the user has no team (the session's team for a
\* representative, the profile's team for every other role), and succeeds
\* otherwise.
C6_CreateOutcome ==
    [][\A d \in SessionDrafts : addTicket(d) => outcome' = ExpectedOutcome]_vars

C6_Witness ==
    /\ outcome = "TeamUnresolved"
    /\ user # <<>>
    /\ user[1].role = ADMIN
    /\ team # Null

\* C7: an addTicket call that fails leaves everything but its outcome as it
\* was: no ticket, no notification, no scheduled audit entry.
C7_FailedCreateChangesNothing ==
    [][\A d \in SessionDrafts :
          (addTicket(d) /\ outcome' \in {"SessionInvalid", "TeamUnresolved"})
          => UNCHANGED <<sessionVars, mockVars, ticketStoreVars, adminStoreVars, clock, pending>>]_vars

C7_Witness ==
    /\ outcome = "SessionInvalid"
    /\ user = <<>>
    /\ Len(mockTickets) = 1
    /\ tickets = <<>>
    /\ pending = <<>>

\* the ticket an update names, before and after the step
Target(p) == FindIndex(mockTickets, LAMBDA t : t.id = p.id)

Updated(p) == updateTicket(p) /\ outcome' = "updated"

ProducedOfKind(after, before, kind) ==
    SelectSeq(Produced(after, before), LAMBDA n : n.message.kind = kind)

\* C8: an update of an existing ticket emits the manual-escalation pair, one
\* AdminNotification and one SystemNotification that reference the ticket,
\* exactly when the ticket is Escalated after the update and was not before.
C8_ManualEscalation ==
    [][\A p \in Partials :
          Updated(p)
          => LET before == mockTickets[Target(p)]
                 after  == mockTickets'[Target(p)]
                 adm == Produced(adminNotifications', adminNotifications)
                 sys == ProducedOfKind(notifications', notifications, "manually escalated")
             IN IF after.status = ESCALATED /\ before.status # ESCALATED
                THEN /\ Len(adm) = 1 /\ Len(sys) = 1
                     /\ adm[1].ticketId = after.id /\ sys[1].ticketId = after.id
                     /\ adm[1].message.kind = "escalated"
                     /\ sys[1].preId = after.preId
                ELSE adm = <<>> /\ sys = <<>>]_vars

C8_Witness ==
    /\ outcome = "updated"
    /\ Len(notifications) >= 1 /\ Len(adminNotifications) >= 1
    /\ notifications[1].message.kind = "manually escalated"
    /\ adminNotifications[1].message.kind = "escalated"
    /\ \E i \in 1..Len(tickets) :
          tickets[i].id = notifications[1].ticketId /\ tickets[i].status = ESCALATED

\* C9: an update of an existing ticket emits one resolution SystemNotification
\* exactly when the ticket is Completed or Closed after the update and was in
\* another status before; its text carries the ticket's comment as the update
\* left it, or the placeholder when there is none.
C9_Resolution ==
    [][\A p \in Partials :
          Updated(p)
          => LET before == mockTickets[Target(p)]
                 after  == mockTickets'[Target(p)]
                 sys == ProducedOfKind(notifications', notifications, "resolved")
             IN IF after.status \in {COMPLETED, CLOSED} /\ after.status # before.status
                THEN /\ Len(sys) = 1
                     /\ sys[1].ticketId = after.id
                     /\ sys[1].preId = after.preId
                     /\ sys[1].message.text =
                          (IF after.comment = "" THEN "No comment provided." ELSE after.comment)
                ELSE sys = <<>>]_vars

C9_Witness ==
    /\ outcome = "updated"
    /\ Len(notifications) >= 1
    /\ notifications[1].message.kind = "resolved"
    /\ notifications[1].message.text = "fixed"
    /\ \E i \in 1..Len(tickets) :
          /\ tickets[i].id = notifications[1].ticketId
          /\ tickets[i].status = COMPLETED /\ tickets[i].comment = "fixed"

\* C10: one update fires at most one notification rule: it never emits both
\* the manual-escalation notifications and the resolution notification, and
\* adds at most one SystemNotification.
C10_OneRulePerUpdate ==
    [][\A p \in Partials :
          updateTicket(p)
          => LET sys == Produced(notifications', notifications)
                 adm == Produced(adminNotifications', adminNotifications)
             IN /\ Len(sys) <= 1
                /\ Len(mockNotifications') <= Len(mockNotifications) + 1
                /\ ~(/\ adm # <<>>
                     /\ ProducedOfKind(notifications', notifications, "resolved") # <<>>)]_vars

C10_Witness ==
    /\ outcome = "updated"
    /\ Len(notifications) = 2 /\ Len(adminNotifications) = 1
    /\ notifications[1].message.kind = "resolved"
    /\ notifications[2].message.kind = "manually escalated"
    /\ notifications[1].ticketId = notifications[2].ticketId

\* C11: an update that leaves the ticket's status as it was emits no
\* notification of either kind; this is the case of a call repeated with the
\* fields the ticket already has.
C11_RepeatIsSilent ==
    [][\A p \in Partials :
          (Updated(p) /\ mockTickets'[Target(p)].status = mockTickets[Target(p)].status)
          => /\ mockNotifications' = mockNotifications
             /\ mockAdminNotifications' = mockAdminNotifications
             /\ notifications' = mockNotifications
             /\ adminNotifications' = mockAdminNotifications]_vars

\* the resolving update has been logged, the repeated one waits for its entry
C11_Witness ==
    /\ outcome = "updated"
    /\ Len(mockTickets) = 1 /\ mockTickets[1].status = COMPLETED
    /\ Len(notifications) = 1 /\ notifications[1].message.kind = "resolved"
    /\ adminNotifications = <<>>
    /\ mockLogs[1].action = "UPDATE"
    /\ mockLogs[1].details.kind = "status changed" /\ mockLogs[1].details.status = COMPLETED
    /\ Len(pending) = 1 /\ pending[1].action = "UPDATE"
    /\ pending[1].details.kind = "details updated"
    /\ mockTickets[1].updatedAt = clock /\ mockLogs[1].timestamp = clock

\* the audit continuations among the waiting ones
AuditQueue(q) == SelectSeq(q, LAMBDA c : c.k = "addLog")

\* the audit entry a continuation records
Recorded(entry, c) ==
    /\ entry.ticketId = c.ticketId /\ entry.userId = c.userId
    /\ entry.action = c.action /\ entry.details = c.details

\* C12: every successful addTicket and every updateTicket that modifies a
\* ticket queues exactly one audit continuation for that ticket (CREATE,
\* respectively UPDATE), with or without a notification; a continuation is
\* recorded as exactly one entry, nothing else writes or drops one, and every
\* queued continuation is eventually recorded.
C12_OneAuditEntry ==
    /\ [][/\ \A d \in Drafts :
               Created(d)
               => /\ mockLogs' = mockLogs
                  /\ Len(pending') = Len(pending) + 1
                  /\ SubSeq(pending', 1, Len(pending)) = pending
                  /\ LET c == pending'[Len(pending')]
                     IN /\ c.k = "addLog" /\ c.action = "CREATE"
                        /\ c.ticketId = Head(mockTickets').id
                        /\ c.userId = user[1].id
          /\ \A p \in Partials :
               Updated(p)
               => /\ mockLogs' = mockLogs
                  /\ Len(pending') = Len(pending) + 1
                  /\ SubSeq(pending', 1, Len(pending)) = pending
                  /\ LET c == pending'[Len(pending')]
                     IN /\ c.k = "addLog" /\ c.action = "UPDATE"
                        /\ c.ticketId = p.id
                        /\ c.userId = user[1].id
          /\ (mockLogs' # mockLogs \/ Len(AuditQueue(pending')) < Len(AuditQueue(pending)))
               => /\ pending # <<>> /\ Head(pending).k = "addLog"
                  /\ pending' = Tail(pending)
                  /\ Len(mockLogs') = Len(mockLogs) + 1
                  /\ Tail(mockLogs') = mockLogs
                  /\ Recorded(Head(mockLogs'), Head(pending))]_vars
    /\ \A n \in 1..(MaxLogs + 1) :
          (Len(mockLogs) + PendingLogs >= n) ~> (Len(mockLogs) >= n)

\* a ticket was created and then updated without a notification; both entries
\* are recorded and nothing waits
C12_Witness ==
    /\ pending = <<>>
    /\ Len(mockLogs) = 3 /\ Len(mockTickets) = 1
    /\ mockLogs[2].action = "CREATE" /\ mockLogs[2].ticketId = mockTickets[1].id
    /\ mockLogs[1].action = "UPDATE" /\ mockLogs[1].ticketId = mockTickets[1].id
    /\ mockLogs[1].details.kind = "details updated"
    /\ Len(notifications) = 1 /\ Len(adminNotifications) = 1

\* every ticket created in this session has its CREATE audit entry
CreatedTicketsAudited ==
    \A i \in 1..Len(mockTickets) :
        mockTickets[i].createdAt >= ClockStart
        => \E j \in 1..Len(mockLogs) :
              mockLogs[j].action = "CREATE" /\ mockLogs[j].ticketId = mockTickets[i].id

\* a create, an update or a mark-read takes effect
LifecycleStep ==
    \/ \E d \in Drafts : addTicket(d)
    \/ \E p \in Partials : updateTicket(p)
    \/ \E id \in AdminNotificationIds : markAdminNotificationAsRead(id)
    \/ \E id \in SystemNotificationIds : markSystemNotificationAsRead(id)

\* C13 as stated: the ticket write and its audit entry are one unit, so a
\* create, an update or a mark-read that takes effect never starts from a state
\* where a created ticket lacks its CREATE audit entry.
C13_WriteAndAuditAreOneUnit ==
    [][LifecycleStep => CreatedTicketsAudited]_vars

\* the entries of `old` are all in `new`, unchanged and in the same order
Retained(old, new) ==
    /\ Len(new) >= Len(old)
    /\ \E k \in 0..(Len(new) - Len(old)) : SubSeq(new, k + 1, k + Len(old)) = old

\* C14: the audit log is append-only: every step keeps every recorded entry,
\* with its ticket reference, user, action, timestamp and detail, and keeps the
\* entries in their order, in the stored log and in the store's list.
C14_AuditLogAppendOnly ==
    [][Retained(mockLogs, mockLogs') /\ Retained(logs, logs')]_vars

\* two entries were recorded, one of them after the admin data was fetched
C14_Witness ==
    /\ users = mockUsers
    /\ Len(mockLogs) = 3 /\ logs = mockLogs
    /\ mockLogs[3] = InitialLogs[1]
    /\ mockLogs[1].action = "UPDATE" /\ mockLogs[2].action = "CREATE"

\* what C15 asks of one mark-read call on a list: nothing but the flag of a
\* notification with that id changes, one with that id is read afterwards if
\* there is any, an id that matches nothing changes nothing, and a second call
\* with the same id changes nothing more
MarkedRead(before, after, id) ==
    /\ Len(after) = Len(before)
    /\ \A i \in 1..Len(before) :
          \/ after[i] = before[i]
          \/ before[i].id = id /\ after[i] = [before[i] EXCEPT !.isRead = TRUE]
    /\ (\E i \in 1..Len(before) : before[i].id = id)
          => \E i \in 1..Len(after) : after[i].id = id /\ after[i].isRead
    /\ (\A i \in 1..Len(before) : before[i].id # id) => after = before
    /\ MarkRead(after, id) = after

\* C15: markSystemNotificationAsRead and markAdminNotificationAsRead set the
\* flag of the notification with the id, are idempotent, and leave every
\* notification unchanged when the id matches none.
C15_MarkReadIdempotent ==
    [][/\ \A id \in SystemNotificationIds :
            markSystemNotificationAsRead(id)
            => /\ MarkedRead(mockNotifications, mockNotifications', id)
               /\ notifications' = mockNotifications'
               /\ mockAdminNotifications' = mockAdminNotifications
       /\ \A id \in AdminNotificationIds :
            markAdminNotificationAsRead(id)
            => /\ MarkedRead(mockAdminNotifications, mockAdminNotifications', id)
               /\ adminNotifications' = mockAdminNotifications'
               /\ mockNotifications' = mockNotifications]_vars

\* a notification of each kind has been marked read
C15_Witness ==
    /\ \E i \in 1..Len(notifications) : notifications[i].isRead
    /\ \E i \in 1..Len(adminNotifications) : adminNotifications[i].isRead
    /\ \E i \in 1..Len(adminNotifications) : ~adminNotifications[i].isRead

\* the number of tickets of a list whose status is one of `statuses`
Count(l, statuses) == Cardinality({ i \in 1..Len(l) : l[i].status \in statuses })

\* C16: calculateKPIs of any ticket list stores as activeTickets the number
\* of In Progress and Escalated tickets, as closedTickets the number of
\* Completed and Closed ones, and 'N/A' as the average exactly when
\* closedTickets is 0; the empty list gives 0, 0 and 'N/A'.
C16_Kpis ==
    [][\A keep \in Filters(tickets) :
          LET l == Filtered(tickets, keep) IN
          calculateKPIs(l)
          => /\ kpis'.activeTickets = Count(l, {IN_PROGRESS, ESCALATED})
             /\ kpis'.closedTickets = Count(l, {COMPLETED, CLOSED})
             /\ (kpis'.avgTimeToSolve = [text |-> "N/A", tenths |-> 0])
                   <=> (kpis'.closedTickets = 0)
             /\ (l = <<>> => kpis' = [activeTickets |-> 0, closedTickets |-> 0,
                                      avgTimeToSolve |-> [text |-> "N/A", tenths |-> 0]])]_vars

\* the KPIs of a list with an escalated and a completed ticket
C16_Witness ==
    /\ Len(tickets) = 2
    /\ tickets[1].status = ESCALATED /\ tickets[2].status = COMPLETED
    /\ kpis.activeTickets = 1 /\ kpis.closedTickets = 1
    /\ kpis.avgTimeToSolve.text = "days"

\* the ids of the users who name one of `managers` as their manager
Reports(allUsers, managers) ==
    { allUsers[i].id : i \in { j \in 1..Len(allUsers) : allUsers[j].managerId \in managers } }

RECURSIVE ReportsWithin(_, _, _)
ReportsWithin(allUsers, found, k) ==
    IF k = 0 THEN found
    ELSE ReportsWithin(allUsers, found \cup Reports(allUsers, found), k - 1)

\* the users reached from managerId over one or more manager-to-report edges
Descendants(managerId, allUsers) ==
    ReportsWithin(allUsers, Reports(allUsers, {managerId}), Len(allUsers))

\* C17: a returned getSubordinateIds call lists exactly the users reachable
\* from managerId over one or more manager-to-report edges, at any depth and
\* of any role, without managerId itself and each id once.
C17_Descendants ==
    bfs.returned
    => /\ { bfs.subordinates[i] : i \in 1..Len(bfs.subordinates) }
            = Descendants(bfs.managerId, bfs.allUsers) \ {bfs.managerId}
       /\ \A i, j \in 1..Len(bfs.subordinates) :
            bfs.subordinates[i] = bfs.subordinates[j] => i = j

\* M has the reports A and B, A has the report C: the call for M returned A, B, C
C17_Witness ==
    /\ bfs.returned /\ bfs.managerId = "M"
    /\ Len(bfs.allUsers) = 4
    /\ bfs.allUsers[1].managerId = Null
    /\ bfs.allUsers[2].managerId = "M" /\ bfs.allUsers[3].managerId = "M"
    /\ bfs.allUsers[4].managerId = "A"
    /\ bfs.subordinates = <<"A", "B", "C">>

\* C18: a getSubordinateIds call returns on every user list, also when the
\* manager references form a cycle, and no id enters the queue twice.
C18_Terminates ==
    /\ [](/\ \A i, j \in 1..Len(bfs.queue) : bfs.queue[i] = bfs.queue[j] => i = j
          /\ bfs.head <= Len(bfs.queue)
          /\ Len(bfs.queue) <= Len(bfs.allUsers) + 1)
    /\ (bfs # NoCall /\ ~bfs.returned) ~> bfs.returned

\* M and A manage each other, B is its own manager; the calls for M returned
C18_Witness ==
    /\ bfs.returned /\ bfs.managerId = "M"
    /\ Len(bfs.allUsers) >= 3
    /\ bfs.allUsers[1].managerId = "A" /\ bfs.allUsers[2].managerId = "M"
    /\ bfs.allUsers[3].managerId = "B"
    /\ bfs.subordinates = <<"A">>

\* the manager id of the call names a user of the list the call was given
KnownManager ==
    \E i \in 1..Len(bfs.allUsers) : bfs.allUsers[i].id = bfs.managerId

\* C19: a call with the empty manager id, or with one that is the id of no user
\* of the list, returns the empty list
C19_UnknownManagerIsEmpty ==
    (bfs.returned /\ (bfs.managerId = "" \/ ~KnownManager)) => bfs.subordinates = <<>>

\* no two stored tickets share an id
TicketIdsUnique ==
    \A i, j \in 1..Len(mockTickets) :
        i # j => mockTickets[i].id # mockTickets[j].id

\* a step that adds no ticket leaves every stored ticket's id as it was
TicketIdsKept ==
    Len(mockTickets') = Len(mockTickets) =>
        \A i \in 1..Len(mockTickets) : mockTickets'[i].id = mockTickets[i].id

\* C20: ticket ids are unique and immutable: whatever creates and updates have
\* run, creates at the same clock instant included, no two stored tickets share
\* an id, and an update does not change the id of the ticket it modifies
C20_TicketIdsUniqueAndImmutable ==
    []TicketIdsUnique /\ [][TicketIdsKept]_vars

C22_AnyStatusFollowsAny ==
    [][\A p \in Partials :
          (Updated(p) /\ p.status # Absent)
          => mockTickets'[Target(p)].status = p.status]_vars

\* a ticket that was resolved, as its notification tells, is InProgress again
C22_Witness ==
    /\ outcome = "updated"
    /\ \E i \in 1..Len(mockTickets), n \in 1..Len(mockNotifications) :
          /\ mockNotifications[n].message.kind = "resolved"
          /\ mockNotifications[n].ticketId = mockTickets[i].id
          /\ mockTickets[i].status = IN_PROGRESS

\* C23: every successful create, whatever status the ticket gets, adds exactly
\* one AdminNotification: unread, referencing the new ticket, worded as a
\* re-submission when the ticket is Escalated and as a new ticket otherwise
C23_OneAdminNotificationPerCreate ==
    [][\A d \in Drafts :
          Created(d)
          => LET t   == Head(mockTickets')
                 adm == Produced(mockAdminNotifications', mockAdminNotifications)
             IN /\ Len(adm) = 1
                /\ adm[1].ticketId = t.id
                /\ adm[1].isRead = FALSE
                /\ adm[1].message.uid = t.uid
                /\ adm[1].message.kind =
                     (IF t.status = ESCALATED THEN "re-submitted and escalated"
                                              ELSE "new ticket created")
                /\ adminNotifications' = mockAdminNotifications']_vars

\* two creates of the session, an Escalated one after a Closed one, each with
\* its AdminNotification
C23_Witness ==
    /\ outcome = "created"
    /\ Len(mockTickets) >= 2 /\ Len(adminNotifications) = 2
    /\ mockTickets[1].status = ESCALATED /\ mockTickets[2].status = CLOSED
    /\ mockTickets[2].createdAt >= ClockStart
    /\ adminNotifications[1].message.kind = "re-submitted and escalated"
    /\ adminNotifications[2].message.kind = "new ticket created"
    /\ adminNotifications[1].ticketId = mockTickets[1].id
    /\ ~adminNotifications[1].isRead

\* the ticket collection, backing array and store, holds a ticket with the id
TicketWritten(mock, store, ticketId) ==
    /\ \E i \in 1..Len(mock) : mock[i].id = ticketId
    /\ \E i \in 1..Len(store) : store[i].id = ticketId

\* every entry of the list references a ticket of the collection
AllWritten(entries, mock, store) ==
    \A i \in 1..Len(entries) : TicketWritten(mock, store, entries[i].ticketId)

\* every UPDATE audit entry lies above, that is after, a CREATE entry for its ticket
CreateRecordedFirst ==
    \A i \in 1..Len(mockLogs) :
        mockLogs[i].action = "UPDATE"
        => \E j \in (i + 1)..Len(mockLogs) :
              mockLogs[j].action = "CREATE" /\ mockLogs[j].ticketId = mockLogs[i].ticketId

C25_CreateLeavesTicketsAlone ==
    [][\A d \in Drafts :
          Created(d)
          => /\ Len(mockTickets') = Len(mockTickets) + 1
             /\ Tail(mockTickets') = mockTickets
             /\ Head(mockTickets').uid = d.uid
             /\ Head(mockTickets').errorTypeId = d.errorTypeId
             /\ tickets' = mockTickets']_vars

\* a re-submission was escalated and the ticket it repeats is still Closed,
\* stamped as it was when it was created
C25_Witness ==
    /\ outcome = "created"
    /\ Len(mockTickets) >= 2
    /\ mockTickets[1].status = ESCALATED
    /\ mockTickets[2].uid = mockTickets[1].uid
    /\ mockTickets[2].errorTypeId = mockTickets[1].errorTypeId
    /\ mockTickets[2].status = CLOSED
    /\ mockTickets[2].updatedAt < mockTickets[1].createdAt

\* the fields no update carries
SameIdentity(after, before) ==
    /\ after.id = before.id /\ after.uid = before.uid /\ after.preId = before.preId
    /\ after.team = before.team /\ after.errorTypeId = before.errorTypeId
    /\ after.createdAt = before.createdAt

\* C26: an update is a patch: on the ticket it names, a field the partial
\* carries is overwritten and a field it does not carry, updatedAt apart,
\* keeps its value (a comment-only update leaves the status); updatedAt is the
\* instant of the update; every other ticket is unchanged
C26_PatchSemantics ==
    [][\A p \in Partials :
          Updated(p)
          => LET k      == Target(p)
                 before == mockTickets[k]
                 after  == mockTickets'[k]
             IN /\ Len(mockTickets') = Len(mockTickets)
                /\ after.status  = (IF p.status = Absent THEN before.status ELSE p.status)
                /\ after.comment = (IF p.comment = Absent THEN before.comment ELSE p.comment)
                /\ after.updatedAt = clock
                /\ SameIdentity(after, before)
                /\ \A i \in 1..Len(mockTickets) : i # k => mockTickets'[i] = mockTickets[i]
                /\ tickets' = mockTickets']_vars

\* a comment-only update of the session's ticket, beside the seeded ticket:
\* the comment is stored and the status is the one the ticket was created with
C26_Witness ==
    /\ outcome = "updated"
    /\ Len(mockTickets) = 2
    /\ mockTickets[1].createdAt >= ClockStart
    /\ mockTickets[1].comment = "fixed" /\ mockTickets[1].status = IN_PROGRESS
    /\ mockTickets[1].updatedAt > mockTickets[1].createdAt
    /\ mockNotifications = <<>>
    /\ mockTickets[2].comment = ""

\* after the step the list is what the step emitted, unread, on top of the list
\* as it was
Prepended(after, before) ==
    /\ Len(after) >= Len(before)
    /\ SubSeq(after, Len(after) - Len(before) + 1, Len(after)) = before
    /\ \A i \in 1..(Len(after) - Len(before)) :
          ~after[i].isRead /\ after[i].timestamp = clock

\* from the head down, no entry was emitted after the one above it
NewestFirst(list) ==
    \A i, j \in 1..Len(list) : i < j => list[i].timestamp >= list[j].timestamp

\* C27: the notification collections are newest first: what a create or an
\* update emits is unread and goes on the head of its collection, so each
\* collection runs from the most recently emitted entry to the oldest
C27_NewestFirst ==
    /\ [][((\E d \in Drafts : Created(d)) \/ (\E p \in Partials : Updated(p)))
          => /\ Prepended(mockNotifications', mockNotifications)
             /\ Prepended(mockAdminNotifications', mockAdminNotifications)
             /\ notifications' = mockNotifications'
             /\ adminNotifications' = mockAdminNotifications']_vars
    /\ [](/\ NewestFirst(mockNotifications) /\ NewestFirst(mockAdminNotifications)
          /\ NewestFirst(notifications) /\ NewestFirst(adminNotifications))

\* a notification of an update lies on top of one emitted at an earlier instant
C27_Witness ==
    /\ outcome = "updated"
    /\ Len(notifications) = 2
    /\ notifications[1].timestamp > notifications[2].timestamp
    /\ ~notifications[1].isRead
    /\ adminNotifications # <<>>

\* the update changes the status of an existing ticket to the one it carries
StatusChanged(p) ==
    /\ Target(p) > 0
    /\ p.status # Absent
    /\ mockTickets[Target(p)].status # p.status

\* the details of the audit entry the call has queued
QueuedDetails == pending'[Len(pending')].details

\* C28: the UPDATE audit entry reports "status changed to X" exactly when the
\* update changed the status of an existing ticket from another value to X,
\* and the generic "details updated" in every other case
C28_StatusChangeReported ==
    [][\A p \in Partials :
          (updateTicket(p) /\ outcome' \in {"updated", "no ticket"})
          => IF StatusChanged(p)
             THEN QueuedDetails.kind = "status changed" /\ QueuedDetails.status = p.status
             ELSE QueuedDetails.kind = "details updated"]_vars

\* a ticket of the collection has the id the notification references
References(n) == \E i \in 1..Len(mockTickets) : mockTickets[i].id = n.ticketId

\* a ticket with that id is owned by the one the notification is addressed to
AddressedToOwner(n) ==
    \E i \in 1..Len(mockTickets) :
        /\ mockTickets[i].id = n.ticketId
        /\ mockTickets[i].preId = n.preId
        /\ mockTickets[i].uid = n.uid

\* C29: every notification comes from a transition of an existing ticket:
\* each SystemNotification and AdminNotification references the id of a ticket
\* of the collection, and each SystemNotification is addressed to the
\* representative who owns that ticket, whoever made the transition
C29_NotificationsReferenceTickets ==
    /\ \A i \in 1..Len(mockAdminNotifications) : References(mockAdminNotifications[i])
    /\ \A i \in 1..Len(mockNotifications) : AddressedToOwner(mockNotifications[i])
    /\ \A i \in 1..Len(adminNotifications) : References(adminNotifications[i])
    /\ \A i \in 1..Len(notifications) : AddressedToOwner(notifications[i])

\* an administrator resolved the representative's ticket and the notification
\* went to the representative
C29_Witness ==
    /\ user # <<>> /\ user[1].role = ADMIN
    /\ outcome = "updated"
    /\ notifications # <<>>
    /\ notifications[1].message.kind = "resolved"
    /\ notifications[1].preId = "user-1"
    /\ adminNotifications # <<>>

\* the two lists hold the same entries, each as often as the other
SameEntries(store, backing) ==
    /\ Len(store) = Len(backing)
    /\ \A i \in 1..Len(store) : \E j \in 1..Len(backing) : store[i] = backing[j]
    /\ \A j \in 1..Len(backing) : \E i \in 1..Len(store) : store[i] = backing[j]

\* fetchAdminData has completed at least once and no call is under way
AdminDataFetched == users # <<>> /\ pending = <<>>

\* C30: once fetchAdminData has completed, the admin store's list of messages
\* holds exactly the entries of the backing collection, each once, whatever
\* adds and deletes were made before and after
C30_StoreEqualsCatalog ==
    AdminDataFetched => SameEntries(messages, mockMessages)

====
